---- MODULE Spec2Model ----
(***************************************************************************)
(* A model of the Universe of src/src/lib.rs: a toroidal Game of Life grid *)
(* kept in a FixedBitSet.  The Universe is the record                      *)
(*   [width, height, cells]                                                *)
(* where cells is the bit set.                                             *)
(***************************************************************************)
EXTENDS Integers, Sequences, FiniteSets, TLC

\* ---------------------------------------------------------------- bounds
\* set_width and set_height are called with 0 .. MaxDim, or with one more than
\* the default dimension (which makes width * height exceed the default size).
MaxDim == 3
\* set_cells is called with at most MaxPairs pairs.
MaxPairs == 3
\* tick is called at most MaxTicks times on a grid, until it is reset.
MaxTicks == 2

\* ------------------------------------------------------ program constants
DefaultWidth == 64
DefaultHeight == 64

VARIABLES
    width,      \* Universe.width
    height,     \* Universe.height
    cells,      \* Universe.cells
    panicked,   \* TRUE once a call has panicked: the program has stopped
    last,       \* the last call: its name, its dimension argument, and, for
                \* set_width / set_height, whether the dimension was the old
                \* one (same) and whether an Alive cell was cleared (cleared)
    ticks,      \* number of tick calls since new() or the last reset
    seeded      \* the pairs given to set_cells since new() or the last reset

vars == <<width, height, cells, panicked, last, ticks, seeded>>

\* ------------------------------------------------------------ FixedBitSet
\* A FixedBitSet is [length, ones]: its length in bits and the set of the
\* bits that are enabled, each of them in 0 .. length - 1.

\* FixedBitSet::with_capacity(bits): bits bits, all disabled.
with_capacity(bits) == [length |-> bits, ones |-> {}]

\* bs[bit] (Index<usize>, which is FixedBitSet::contains): bits outside the
\* length read as disabled, without a panic.
contains(bs, bit) == bit < bs.length /\ bit \in bs.ones

\* FixedBitSet::set(bit, enabled) asserts bit < length, and panics otherwise.
set_in_range(bs, bit) == bit < bs.length

set(bs, bit, enabled) ==
    [bs EXCEPT !.ones = IF enabled THEN @ \cup {bit} ELSE @ \ {bit}]

\* FixedBitSet::clear(): every bit disabled; the length is kept.
clear(bs) == [bs EXCEPT !.ones = {}]

\* --------------------------------------------------------------- Universe
\* The seed with && for ||.
seed_and(bs) == [bs EXCEPT !.ones = {i \in 0..(bs.length - 1) : i % 2 = 0 /\ i % 7 = 0}]

\* The loop of new(): cells.set(i, i % 2 == 0 || i % 7 == 0) for i in 0..size,
\* on a bit set of capacity size.
seed(bs) == [bs EXCEPT !.ones = {i \in 0..(bs.length - 1) : i % 2 = 0 \/ i % 7 = 0}]

new ==
    LET size == DefaultWidth * DefaultHeight
    IN  [width  |-> DefaultWidth,
         height |-> DefaultHeight,
         cells  |-> seed(with_capacity(size))]

\* (self.width * row + column) as usize.  The dimensions of this model keep
\* every u32 product and sum far below 2^32.
get_index(self, row, column) == self.width * row + column

\* The arrays the two loops of live_neighbor_count run over.  tick calls
\* live_neighbor_count only for a cell of the grid, so with height >= 1 and
\* width >= 1: the u32 subtractions do not wrap.
delta_rows(self) == <<self.height - 1, 0, 1>>
delta_cols(self) == <<self.width - 1, 0, 1>>

\* `continue` without its condition: no pair is skipped.
skipped_never(delta_row, delta_col) == FALSE

\* `continue`: the pair (delta_row, delta_col) is skipped.
skipped(delta_row, delta_col) == delta_row = 0 /\ delta_col = 0

\* The neighbour's row and column without the reduction modulo the dimension.
neighbor_row_nowrap(self, row, delta_row) == row + delta_row
neighbor_col_nowrap(self, column, delta_col) == column + delta_col

neighbor_row(self, row, delta_row) == (row + delta_row) % self.height
neighbor_col(self, column, delta_col) == (column + delta_col) % self.width

\* One iteration of the inner loop of live_neighbor_count: what it adds to count.
neighbor(self, row, column, delta_row, delta_col) ==
    IF skipped(delta_row, delta_col) THEN 0
    ELSE IF contains(self.cells, get_index(self, neighbor_row(self, row, delta_row),
                                           neighbor_col(self, column, delta_col)))
         THEN 1 ELSE 0

live_neighbor_count(self, row, column) ==
    LET n(i, j) == neighbor(self, row, column, delta_rows(self)[i], delta_cols(self)[j])
    IN  n(1, 1) + n(1, 2) + n(1, 3)
        + n(2, 1) + n(2, 2) + n(2, 3)
        + n(3, 1) + n(3, 2) + n(3, 3)

\* get_next_tick_cell_state with rule 3 taken as "more than four".
get_next_tick_cell_state_rule3(cell, live_neighbors) ==
    CASE cell /\ live_neighbors < 2 -> FALSE
      [] cell /\ live_neighbors \in {2, 3} -> TRUE
      [] cell /\ live_neighbors > 4 -> FALSE
      [] ~cell /\ live_neighbors = 3 -> TRUE
      [] OTHER -> cell

get_next_tick_cell_state(cell, live_neighbors) ==
    CASE cell /\ live_neighbors < 2 -> FALSE
      [] cell /\ live_neighbors \in {2, 3} -> TRUE
      [] cell /\ live_neighbors > 3 -> FALSE
      [] ~cell /\ live_neighbors = 3 -> TRUE
      [] OTHER -> cell

\* tick reading from the buffer it is writing.
tick_source_next(self, next) == next

\* The buffer the loop of tick reads the cell and its neighbours from:
\* self.cells, never next.
tick_source(self, next) == self

\* One iteration of the inner loop of tick.  acc is [ok, cells]: cells is
\* `next`, ok is FALSE once next.set has panicked (which ends both loops).
tick_cell(self, acc, row, col) ==
    LET src == tick_source(self, [self EXCEPT !.cells = acc.cells])
        index == get_index(self, row, col)
        cell == contains(src.cells, index)
        live_neighbors == live_neighbor_count(src, row, col)
    IN  IF set_in_range(acc.cells, index)
        THEN [ok |-> TRUE,
              cells |-> set(acc.cells, index,
                            get_next_tick_cell_state(cell, live_neighbors))]
        ELSE [ok |-> FALSE, cells |-> acc.cells]

RECURSIVE tick_cols(_, _, _, _)
tick_cols(self, acc, row, col) ==
    IF ~acc.ok \/ col >= self.width THEN acc
    ELSE tick_cols(self, tick_cell(self, acc, row, col), row, col + 1)

RECURSIVE tick_rows(_, _, _)
tick_rows(self, acc, row) ==
    IF ~acc.ok \/ row >= self.height THEN acc
    ELSE tick_rows(self, tick_cols(self, acc, row, 0), row + 1)

\* tick: [ok, self]; on a panic self is left as it was (next is dropped).
tick(self) ==
    LET next == tick_rows(self, [ok |-> TRUE, cells |-> self.cells], 0)
    IN  IF next.ok
        THEN [ok |-> TRUE, self |-> [self EXCEPT !.cells = next.cells]]
        ELSE [ok |-> FALSE, self |-> self]

\* reset_cells that replaces the buffer only when it has to grow.
reset_cells_keep(self) ==
    IF self.width * self.height > self.cells.length
    THEN [self EXCEPT !.cells = with_capacity(self.width * self.height)]
    ELSE self

reset_cells(self) == [self EXCEPT !.cells = clear(self.cells)]

set_width(self, w) == reset_cells([self EXCEPT !.width = w])

set_height(self, h) == reset_cells([self EXCEPT !.height = h])

\* set_cells: [ok, self]; a panic of cells.set keeps the bits set before it.
RECURSIVE set_cells(_, _)
set_cells(self, pairs) ==
    IF pairs = <<>> THEN [ok |-> TRUE, self |-> self]
    ELSE
        LET index == get_index(self, Head(pairs)[1], Head(pairs)[2])
        IN  IF set_in_range(self.cells, index)
            THEN set_cells([self EXCEPT !.cells = set(self.cells, index, TRUE)],
                           Tail(pairs))
            ELSE [ok |-> FALSE, self |-> self]

\* ------------------------------------------------------------ the machine
Self == [width |-> width, height |-> height, cells |-> cells]

Store(r) ==
    /\ width' = r.self.width
    /\ height' = r.self.height
    /\ cells' = r.self.cells
    /\ panicked' = ~r.ok

Call(op, dim, same, cleared) == [op |-> op, dim |-> dim, same |-> same, cleared |-> cleared]

Init ==
    /\ width = new.width
    /\ height = new.height
    /\ cells = new.cells
    /\ panicked = FALSE
    /\ last = Call("new", 0, FALSE, FALSE)
    /\ ticks = 0
    /\ seeded = <<>>

Tick ==
    /\ ~panicked
    /\ ticks < MaxTicks
    /\ Store(tick(Self))
    /\ last' = Call("tick", 0, FALSE, FALSE)
    /\ ticks' = ticks + 1
    /\ UNCHANGED seeded

\* The cells of the grid that are Alive.
Alive(self) ==
    {p \in (0..(self.height - 1)) \X (0..(self.width - 1)) :
        contains(self.cells, get_index(self, p[1], p[2]))}

\* Some cell of the grid is Alive: some enabled bit is the index of a cell.
SomeAlive(self) == \E i \in self.cells.ones : i < self.width * self.height

DimInputs == (0..MaxDim) \cup {DefaultWidth + 1}

SetWidth ==
    /\ ~panicked
    /\ \E w \in DimInputs :
        /\ Store([ok |-> TRUE, self |-> set_width(Self, w)])
        /\ last' = Call("set_width", w, w = width, SomeAlive(Self))
    /\ ticks' = 0
    /\ seeded' = <<>>

SetHeight ==
    /\ ~panicked
    /\ \E h \in DimInputs :
        /\ Store([ok |-> TRUE, self |-> set_height(Self, h)])
        /\ last' = Call("set_height", h, h = height, SomeAlive(Self))
    /\ ticks' = 0
    /\ seeded' = <<>>

\* p comes before q in row-major order.
Before(p, q) == p[1] < q[1] \/ (p[1] = q[1] /\ p[2] < q[2])

\* The row-major lists of at most n distinct pairs of S.
RECURSIVE Lists(_, _)
Lists(S, n) ==
    IF n = 0 THEN {<<>>}
    ELSE {<<>>} \cup
         UNION {{<<p>> \o l : l \in Lists({q \in S : Before(p, q)}, n - 1)} : p \in S}

\* The pairs set_cells is called with, all of them in range: any cell of a
\* grid of at most MaxDim x MaxDim cells, the last cell of a larger grid.
PairInputs ==
    IF width <= MaxDim /\ height <= MaxDim
    THEN (0..(height - 1)) \X (0..(width - 1))
    ELSE {p \in {<<height - 1, width - 1>>} : p[1] >= 0 /\ p[2] >= 0}

\* set_cells is called once on a grid, before the grid is ticked.
SetCells ==
    /\ ~panicked
    /\ ticks = 0
    /\ seeded = <<>>
    /\ \E pairs \in Lists(PairInputs, MaxPairs) :
        /\ Store(set_cells(Self, pairs))
        /\ seeded' = pairs
    /\ last' = Call("set_cells", 0, FALSE, FALSE)
    /\ UNCHANGED ticks

Next == Tick \/ SetWidth \/ SetHeight \/ SetCells

Spec == Init /\ [][Next]_vars

\* ------------------------------------------- every neighbourhood of a cell
\* The row-major list of the pairs of S.
RECURSIVE ListOf(_)
ListOf(S) ==
    IF S = {} THEN <<>>
    ELSE LET p == CHOOSE p \in S : \A q \in S \ {p} : Before(p, q)
         IN  <<p>> \o ListOf(S \ {p})

\* The Universe after new(), set_width(3), set_height(3) and set_cells(pairs).
Seeded3x3(pairs) == set_cells(set_height(set_width(new, 3), 3), pairs).self

\* The 3 x 3 grids: the cell (1, 1) with each of the 2^8 states of its 8
\* neighbours, from which the grid is ticked.
InitRule ==
    /\ \E S \in SUBSET ((0..2) \X (0..2)) :
        /\ width = Seeded3x3(ListOf(S)).width
        /\ height = Seeded3x3(ListOf(S)).height
        /\ cells = Seeded3x3(ListOf(S)).cells
        /\ seeded = ListOf(S)
    /\ panicked = FALSE
    /\ last = Call("set_cells", 0, FALSE, FALSE)
    /\ ticks = 0

SpecRule == InitRule /\ [][Tick]_vars

\* ----------------------------------------------------------------- claims
\* The flat indices of the cells of the grid.
GridIndices(self) == 0..(self.width * self.height - 1)

\* Every cell of the grid is Dead: no enabled bit is the index of a cell.
AllDead(self) == \A i \in self.cells.ones : i \notin GridIndices(self)

\* C1: in every reachable state the length of the cell buffer is
\* width * height (in particular right after set_width and set_height).
C1_LengthIsArea == cells.length = width * height

\* C2: with width > 0 and height > 0, a tick() or a set_cells() of in-range
\* pairs completes without failing: no call panics.
C2_NoFailure == (width > 0 /\ height > 0) => ~panicked

\* C8: new() returns a 64 x 64 Universe with a buffer of 4096 cells in which
\* cell i is Alive iff i % 2 == 0 or i % 7 == 0.
C8_New ==
    last.op = "new" =>
        /\ width = 64
        /\ height = 64
        /\ cells.length = 4096
        /\ \A i \in 0..4095 : contains(cells, i) <=> (i % 2 = 0 \/ i % 7 = 0)

\* The state new() returns: cell 7 is Alive by the second rule alone, cell 1 is Dead.
C8_Witness ==
    /\ last.op = "new"
    /\ contains(cells, 7)
    /\ ~contains(cells, 1)

\* C4: for is_alive in {true, false} and live_neighbors in 0..8,
\* get_next_tick_cell_state returns Alive exactly when the cell is alive with 2
\* or 3 live neighbours or dead with 3, and Dead in the 15 other cases.  (It
\* is applied to every cell of the grid; over the 3 x 3 grids the cell (1, 1)
\* takes each of the 18 inputs.)
C4_RuleTable ==
    \A row \in 0..(height - 1), col \in 0..(width - 1) :
        LET is_alive == contains(cells, get_index(Self, row, col))
            live_neighbors == live_neighbor_count(Self, row, col)
        IN  get_next_tick_cell_state(is_alive, live_neighbors)
                <=> \/ (is_alive /\ live_neighbors \in {2, 3})
                    \/ (~is_alive /\ live_neighbors = 3)

\* The grid seeded with its first row, ticked once: (1, 1), Dead with 3 live
\* neighbours, has become Alive.
C4_Witness ==
    /\ seeded = <<<<0, 0>>, <<0, 1>>, <<0, 2>>>>
    /\ width = 3
    /\ height = 3
    /\ ticks = 1
    /\ contains(cells, get_index(Self, 1, 1))

\* C6: set_width(w) sets the width to w and keeps the height, set_height(h)
\* sets the height to h and keeps the width, and after either every cell of
\* the grid is Dead, whatever the cells were and also when the dimension is
\* the old one.
C6_Reset ==
    [][/\ last'.op = "set_width" =>
            width' = last'.dim /\ height' = height /\ AllDead(Self')
       /\ last'.op = "set_height" =>
            height' = last'.dim /\ width' = width /\ AllDead(Self')]_vars

\* set_width was called with the old width on a grid with an Alive cell.
C6_Witness ==
    /\ last.op = "set_width"
    /\ last.same
    /\ last.cleared

\* C3: on a Universe whose buffer length is width * height, with width > 0 and
\* height > 0, tick() sets every cell to get_next_tick_cell_state(s, n), s the
\* cell's state and n its live-neighbor count in the grid before the tick.
C3_TickReadsOldGrid ==
    [][(/\ last'.op = "tick"
        /\ cells.length = width * height
        /\ width > 0
        /\ height > 0)
       => /\ ~panicked'
          /\ \A row \in 0..(height - 1), col \in 0..(width - 1) :
                contains(cells', get_index(Self, row, col))
                    <=> get_next_tick_cell_state(
                            contains(cells, get_index(Self, row, col)),
                            live_neighbor_count(Self, row, col))]_vars

\* A tick has been made on a populated grid whose buffer length is width * height.
C3_Witness ==
    /\ last.op = "tick"
    /\ ~panicked
    /\ cells.length = width * height
    /\ width > 0
    /\ height > 0
    /\ SomeAlive(Self)

Horizontal == {<<1, 0>>, <<1, 1>>, <<1, 2>>}
Vertical == {<<0, 1>>, <<1, 1>>, <<2, 1>>}

\* C5: on a 3 x 3 Universe with exactly the horizontal blinker Alive, a tick
\* leaves exactly the vertical blinker Alive, and a second tick restores the
\* horizontal one.
C5_Blinker ==
    [][(last'.op = "tick" /\ width = 3 /\ height = 3)
       => /\ Alive(Self) = Horizontal => Alive(Self') = Vertical
          /\ Alive(Self) = Vertical => Alive(Self') = Horizontal]_vars

\* C5, amended: on the 3 x 3 torus every cell has the three cells of the
\* horizontal blinker among its neighbours, so a tick makes all nine cells
\* Alive and a second tick leaves every cell Dead.
C5_Blinker3x3 ==
    [][(last'.op = "tick" /\ width = 3 /\ height = 3)
       => /\ Alive(Self) = Horizontal => Alive(Self') = (0..2) \X (0..2)
          /\ Alive(Self) = (0..2) \X (0..2) => Alive(Self') = {}]_vars

\* The 3 x 3 grid seeded with the horizontal blinker has been ticked twice.
C5_Witness ==
    /\ width = 3
    /\ height = 3
    /\ seeded = <<<<1, 0>>, <<1, 1>>, <<1, 2>>>>
    /\ ticks = 2
    /\ ~panicked
    /\ Alive(Self) = {}

\* The positions ((row + dr) mod H, (col + dc) mod W), (dr, dc) # (0, 0).
Torus8(self, row, col) ==
    {<<(row + d[1]) % self.height, (col + d[2]) % self.width>> :
        d \in ({-1, 0, 1} \X {-1, 0, 1}) \ {<<0, 0>>}}

\* C7: for width W > 2 and height H > 2, live_neighbor_count(row, col) is the
\* number of Alive cells among the 8 distinct positions
\* ((row + dr) mod H, (col + dc) mod W); for (0, 0) these are (H-1, W-1),
\* (H-1, 0), (H-1, 1), (0, W-1), (0, 1), (1, W-1), (1, 0), (1, 1).
C7_NeighborCount ==
    (width > 2 /\ height > 2) =>
        /\ \A row \in 0..(height - 1), col \in 0..(width - 1) :
                /\ Cardinality(Torus8(Self, row, col)) = 8
                /\ live_neighbor_count(Self, row, col)
                    = Cardinality({p \in Torus8(Self, row, col) :
                                    contains(cells, get_index(Self, p[1], p[2]))})
        /\ Torus8(Self, 0, 0)
            = {<<height - 1, width - 1>>, <<height - 1, 0>>, <<height - 1, 1>>,
               <<0, width - 1>>, <<0, 1>>,
               <<1, width - 1>>, <<1, 0>>, <<1, 1>>}

\* Only the last cell of a 3 x 3 grid is Alive, and (0, 0) counts it.
C7_Witness ==
    /\ width = 3
    /\ height = 3
    /\ Alive(Self) = {<<2, 2>>}
    /\ live_neighbor_count(Self, 0, 0) = 1

Range(f) == {f[i] : i \in DOMAIN f}

\* C9: set_cells(pairs), every pair in range, makes the cell at flat index
\* width * row + col Alive for each pair and leaves every other cell, the
\* width and the height as they were.
C9_SetCells ==
    [][last'.op = "set_cells"
       => /\ ~panicked'
          /\ width' = width
          /\ height' = height
          /\ cells'.length = cells.length
          /\ cells'.ones = cells.ones \cup
                {width * p[1] + p[2] : p \in Range(seeded')}]_vars

\* The (delta_row, delta_col) iterations of live_neighbor_count that are not
\* skipped, by their positions in the two arrays.
examined(self) ==
    {d \in (1..3) \X (1..3) :
        ~skipped(delta_rows(self)[d[1]], delta_cols(self)[d[2]])}

\* Some iteration that is not skipped reads the cell (row, col) itself.
counts_self(self, row, col) ==
    \E d \in examined(self) :
        /\ neighbor_row(self, row, delta_rows(self)[d[1]]) = row
        /\ neighbor_col(self, col, delta_cols(self)[d[2]]) = col

\* C10: for width >= 1 and height >= 1 and every cell, live_neighbor_count
\* examines exactly 8 offset pairs, never counts the cell itself, and returns
\* a value in [0, 8].
C10_EightOthers ==
    (width >= 1 /\ height >= 1) =>
        \A row \in 0..(height - 1), col \in 0..(width - 1) :
            /\ Cardinality(examined(Self)) = 8
            /\ ~counts_self(Self, row, col)
            /\ live_neighbor_count(Self, row, col) \in 0..8

\* C10, amended: that holds for width >= 2 and height >= 2.  With a dimension
\* of 1 the offset dimension - 1 is 0 too, so 7 pairs are examined (5 when
\* both are 1), and the offset 1 leads back to the cell, which is counted; the
\* value is still in [0, 8].
C10_EightOthersFrom2 ==
    /\ (width >= 2 /\ height >= 2) =>
            \A row \in 0..(height - 1), col \in 0..(width - 1) :
                /\ Cardinality(examined(Self)) = 8
                /\ ~counts_self(Self, row, col)
                /\ live_neighbor_count(Self, row, col) \in 0..8
    /\ (width >= 1 /\ height >= 1 /\ (width = 1 \/ height = 1)) =>
            \A row \in 0..(height - 1), col \in 0..(width - 1) :
                /\ Cardinality(examined(Self))
                    = IF width = 1 /\ height = 1 THEN 5 ELSE 7
                /\ counts_self(Self, row, col)
                /\ live_neighbor_count(Self, row, col) \in 0..8

\* On a 2 x 2 grid with only (1, 1) Alive, (0, 0) counts it four times.
C10_Witness ==
    /\ width = 2
    /\ height = 2
    /\ Alive(Self) = {<<1, 1>>}
    /\ live_neighbor_count(Self, 0, 0) = 4

====
